---------------------------- MODULE Spec2Model ----------------------------
(***************************************************************************)
(* A model of foolaunch (src/foolaunch.py): the configuration loader, the  *)
(* profile resolver of Session, the block-device mapper and                *)
(* Session.launch with its spot-request polling loop.                      *)
(*                                                                         *)
(* The module holds four state machines over one set of variables; each    *)
(* specification drives one of them and leaves the variables of the others *)
(* at their idle values:                                                   *)
(*   SpecLoad     _load_configurations                                     *)
(*   SpecSession  Session.__init__, Session.apply, Session._apply          *)
(*   SpecDevice   _DEVICE_LETTER, _make_block_device_map                   *)
(*   SpecLaunch   Session.launch (FairLaunch adds the fairness)            *)
(***************************************************************************)
EXTENDS Integers, Sequences, FiniteSets, TLC

VARIABLES
    \* ---- _load_configurations ----
    args,        \* the explicit paths given by the caller (a sequence)
    fs,          \* the file system: path -> what open()/read() gives
    loadPc,      \* "call" before the call, "returned" / "raised" after it
    loadValue,   \* the value returned ("none" before, and when it raised)
    \* ---- Session ----
    doc,         \* Session._configurations: profile name -> profile body
    sess,        \* "new" before __init__, "ready" after it, "failed" if it raised
    options,     \* the option attributes of the Session object
    lastLabel,   \* the label of the last apply call ("none" before any)
    lastErr,     \* the error that call raised, "none" when it returned
    lastTotal,   \* the dict `total` that call built
    lastSetter,  \* history: per option, the last successfully applied label
                 \* whose resolved option set names the option ("none" if none)
    \* ---- _make_block_device_map ----
    dmImage,     \* image.block_device_mapping['/dev/xvda'].size
    dmType,      \* instance_type
    dmOverride,  \* root_volume_size (NoSize = None)
    dmPc,        \* "call" before the call, "returned" / "raised" after it
    dmResult,    \* what the call returned
    \* ---- Session.launch ----
    cfg,         \* the attributes of the Session that launch reads
    env,         \* the provider: images and subnets matching, price known
    pc,          \* "start", "create", "poll", "finalize", "done", "raised"
    err,         \* the error launch raised ("none" if none)
    kwargs,      \* create_kwargs
    nReq,        \* len(spot_request_ids)
    cur,         \* index of the spot request being polled (from 1)
    reqState,    \* per spot request: the state last polled ("unpolled" if none)
    instance_ids,
    calls,       \* the creating, tagging and registering calls issued so far
    returned     \* the ids of the instances launch returned

loadVars == <<args, fs, loadPc, loadValue>>
sessVars == <<doc, sess, options, lastLabel, lastErr, lastTotal, lastSetter>>

devVars == <<dmImage, dmType, dmOverride, dmPc, dmResult>>

launchVars == <<cfg, env, pc, err, kwargs, nReq, cur, reqState, instance_ids,
                calls, returned>>

vars == <<loadVars, sessVars, devVars, launchVars>>

(***************************************************************************)
(* Idle values: what a specification gives the variables it does not use.  *)
(***************************************************************************)
LoadIdle ==
    /\ args = <<>>
    /\ fs = <<>>
    /\ loadPc = "idle"
    /\ loadValue = "none"

SessIdle ==
    /\ doc = <<>>
    /\ sess = "idle"
    /\ options = <<>>
    /\ lastLabel = "none"
    /\ lastErr = "none"
    /\ lastTotal = <<>>
    /\ lastSetter = <<>>

DevIdle ==
    /\ dmImage = 0
    /\ dmType = "none"
    /\ dmOverride = 0
    /\ dmPc = "idle"
    /\ dmResult = <<>>

LaunchIdle ==
    /\ cfg = <<>>
    /\ env = <<>>
    /\ pc = "idle"
    /\ err = "none"
    /\ kwargs = <<>>
    /\ nReq = 0
    /\ cur = 0
    /\ reqState = <<>>
    /\ instance_ids = <<>>
    /\ calls = <<>>
    /\ returned = <<>>

(***************************************************************************)
(*                       _load_configurations                              *)
(***************************************************************************)

\* Upper bound on the number of explicit paths handed to the loader.
MaxArgs == 1

\* The paths the caller can give, in the order it gives them.
ArgPaths == [i \in 1..MaxArgs |-> "arg" \o ToString(i)]

DefaultPaths == <<"./.foolaunch", "~/.foolaunch", "/etc/foolaunch">>

AllPaths == {ArgPaths[i] : i \in 1..MaxArgs} \cup {DefaultPaths[i] : i \in 1..3}

\* What a path holds: no readable file, or the bytes read from it.  "" is
\* an empty file, "garbage" is text that is not JSON, "{}" the empty JSON
\* object, "jsonA" / "jsonB" the JSON text of two distinct documents.
Unreadable == "unreadable"
FileBodies == {"", "garbage", "{}", "jsonA", "jsonB"}
FileStates == {Unreadable} \cup FileBodies

\* ujson.loads: the document a body decodes to, "ValueError" when it does not.
Loads(body) ==
    CASE body = "jsonA" -> "docA"
      [] body = "jsonB" -> "docB"
      [] body = "{}"    -> "emptyDoc"
      [] OTHER          -> "ValueError"

\* filenames = list(args) + ['./.foolaunch', '~/.foolaunch', '/etc/foolaunch']
Filenames(a) == a \o DefaultPaths

\* The for loop of _load_configurations: every filename is tried in order, a
\* failed open/read is skipped, a successful read overwrites body; the loop
\* has no break.  i is the next index, body the value so far ("none" = None).
RECURSIVE ReadLoop(_, _, _, _)
ReadLoop(files, names, i, body) ==
    IF i > Len(names) THEN body
    ELSE IF files[names[i]] = Unreadable
         THEN ReadLoop(files, names, i + 1, body)
         ELSE ReadLoop(files, names, i + 1, files[names[i]])

\* The value of _load_configurations(*a): <<"returned", doc>> or <<"raised", e>>.
LoadConfigurations(files, a) ==
    LET body == ReadLoop(files, Filenames(a), 1, "none")
    IN  IF body # "none" /\ body # ""
        THEN IF Loads(body) = "ValueError"
             THEN <<"raised", "ValueError">>
             ELSE <<"returned", Loads(body)>>
        ELSE <<"returned", "emptyDoc">>

InitLoad ==
    /\ SessIdle
    /\ DevIdle
    /\ LaunchIdle
    /\ args \in {SubSeq(ArgPaths, 1, n) : n \in 0..MaxArgs}
    /\ fs \in [AllPaths -> FileStates]
    /\ loadPc = "call"
    /\ loadValue = "none"

CallLoad ==
    /\ loadPc = "call"
    /\ LET r == LoadConfigurations(fs, args)
       IN  /\ loadPc' = r[1]
           /\ loadValue' = IF r[1] = "returned" THEN r[2] ELSE "none"
    /\ UNCHANGED <<args, fs, sessVars, devVars, launchVars>>

NextLoad == CallLoad

SpecLoad == InitLoad /\ [][NextLoad]_vars

\* ---- C1 ----
\* The document of the first candidate, in search order, that can be read
\* and parsed; the empty document when there is none.
RECURSIVE FirstGood(_, _, _)
FirstGood(files, names, i) ==
    IF i > Len(names) THEN "emptyDoc"
    ELSE IF files[names[i]] # Unreadable /\ Loads(files[names[i]]) # "ValueError"
         THEN Loads(files[names[i]])
         ELSE FirstGood(files, names, i + 1)

\* C1: the loader returns, without raising, the document of the first
\* candidate in search order that can be both read and parsed, and the empty
\* document when no candidate qualifies.
C1_FirstGoodCandidateWins ==
    loadPc # "call" =>
        /\ loadPc = "returned"
        /\ loadValue = FirstGood(fs, Filenames(args), 1)

(***************************************************************************)
(*             Session.__init__, Session.apply, Session._apply             *)
(***************************************************************************)

\* _VALID_KEYS
VALID_KEYS ==
    {"profile", "region", "image", "instance_type", "placement", "subnet",
     "key", "instance_profile", "security_groups", "tags", "root_volume_size",
     "load_balancers", "user_data_b64", "spot", "name", "count", "price", "*"}

\* The attributes Session.__init__ sets, with the values it gives them.
InitialOptions ==
    [k \in (VALID_KEYS \ {"*"}) \cup {"dry_run"} |->
        IF k \in {"spot", "dry_run"} THEN "False" ELSE "None"]

\* The profile names of the modelled documents, in rank order: the include
\* list of a profile names profiles of lower rank only, which keeps every
\* modelled document acyclic (_apply does not terminate on a cyclic one).
Names == <<"default", "a", "b">>
NameSet == {Names[i] : i \in 1..Len(Names)}

\* Upper bound on the length of an include list.
MaxIncludes == 2

\* The options the modelled profiles set, and a key outside _VALID_KEYS.
DocKeys == {"region", "image"}
BadKey == "dry_run"

\* A profile body.  kind: "absent" (the name is not in the document),
\* "notdict" (its value is no dict) or "dict".  star: "nostar" (no "*" key),
\* "notlist" (a "*" value that is no list) or "list", with includes its
\* value.  own: the key/value pairs other than "*".
Body(kind, star, includes, own) ==
    [kind |-> kind, star |-> star, includes |-> includes, own |-> own]

\* The value profile p gives the keys ks: a value only p gives.
OwnOf(p, ks) == [k \in ks |-> "from_" \o p]

IncludeLists(rank) ==
    UNION {[1..n -> {Names[j] : j \in 1..(rank - 1)}] : n \in 0..MaxIncludes}

\* The well-formed bodies of the profile of rank i.
GoodBodies(i) ==
    {Body("dict", "nostar", <<>>, OwnOf(Names[i], ks)) : ks \in SUBSET DocKeys}
    \cup {Body("dict", "list", l, OwnOf(Names[i], ks)) :
              l \in IncludeLists(i), ks \in SUBSET DocKeys}

GoodDocs ==
    {[p \in NameSet |-> CASE p = Names[1] -> b1 [] p = Names[2] -> b2 [] OTHER -> b3] :
        b1 \in GoodBodies(1), b2 \in GoodBodies(2), b3 \in GoodBodies(3)}

\* One defect at most per modelled document.
Defects ==
    {<<"none", "default">>}
    \cup ({"absent", "notdict", "notlist", "badkey"} \X NameSet)

Damage(d, defect) ==
    LET p == defect[2] IN
    CASE defect[1] = "none"    -> d
      [] defect[1] = "absent"  -> [d EXCEPT ![p] = Body("absent", "nostar", <<>>, <<>>)]
      [] defect[1] = "notdict" -> [d EXCEPT ![p] = Body("notdict", "nostar", <<>>, <<>>)]
      [] defect[1] = "notlist" -> [d EXCEPT ![p] = Body("dict", "notlist", <<>>, d[p].own)]
      [] defect[1] = "badkey"  ->
             [d EXCEPT ![p].own = (BadKey :> ("from_" \o p)) @@ d[p].own]

\* A store that keeps a value total already holds.
StoreFirstWins(total, own) ==
    [k \in DOMAIN total \cup DOMAIN own |->
        IF k \in DOMAIN total THEN total[k] ELSE own[k]]

\* total[k] = v for every pair of own: a stored value replaces the old one.
Store(total, own) ==
    [k \in DOMAIN total \cup DOMAIN own |->
        IF k \in DOMAIN own THEN own[k] ELSE total[k]]

\* Session._apply(label, total): the error raised ("none" if it returned)
\* and total as the call leaves it.  ApplyIncludes is the loop over the
\* include list, which ends at the first call that raises.  When a key is
\* not in _VALID_KEYS the own pairs the dict happened to yield before it are
\* stored already; total is given here without them, and apply drops it.
RECURSIVE ApplyRec(_, _, _)
RECURSIVE ApplyIncludes(_, _, _, _)
ApplyRec(d, label, total) ==
    LET configuration == d[label] IN
    IF label \notin DOMAIN d \/ configuration.kind = "absent"
    THEN [err |-> "UnknownProfile", total |-> total]
    ELSE IF configuration.kind # "dict"
    THEN [err |-> "InvalidProfileShape", total |-> total]
    ELSE IF configuration.star = "notlist"
    THEN [err |-> "InvalidIncludeList", total |-> total]
    ELSE LET inc == IF configuration.star = "list"
                    THEN ApplyIncludes(d, configuration.includes, 1, total)
                    ELSE [err |-> "none", total |-> total]
         IN  IF inc.err # "none" THEN inc
             ELSE IF \E k \in DOMAIN configuration.own : k \notin VALID_KEYS
             THEN [err |-> "UnknownOption", total |-> inc.total]
             ELSE [err |-> "none", total |-> Store(inc.total, configuration.own)]

ApplyIncludes(d, includes, i, total) ==
    IF i > Len(includes) THEN [err |-> "none", total |-> total]
    ELSE LET r == ApplyRec(d, includes[i], total)
         IN  IF r.err # "none" THEN r
             ELSE ApplyIncludes(d, includes, i + 1, r.total)

\* A setattr loop that also puts the options total does not name back to
\* their initial values.
SetAttrsReset(opts, total) ==
    [k \in DOMAIN opts \cup DOMAIN total |->
        IF k \in DOMAIN total THEN total[k] ELSE InitialOptions[k]]

\* for k, v in total.iteritems(): setattr(self, k, v)
SetAttrs(opts, total) ==
    [k \in DOMAIN opts \cup DOMAIN total |->
        IF k \in DOMAIN total THEN total[k] ELSE opts[k]]

\* An apply that sets the attributes of total also when _apply raised.
SessionApplyPartial(opts, d, label) ==
    LET r == ApplyRec(d, label, <<>>)
    IN  [err |-> r.err, total |-> r.total, options |-> SetAttrs(opts, r.total)]

\* Session.apply(label) on a session with options opts: the error raised,
\* the total built and the options after the call.
SessionApply(opts, d, label) ==
    IF label \notin DOMAIN d \/ d[label].kind = "absent"
    THEN [err |-> "UnknownProfile", total |-> <<>>, options |-> opts]
    ELSE LET r == ApplyRec(d, label, <<>>)
         IN  IF r.err # "none"
             THEN [err |-> r.err, total |-> r.total, options |-> opts]
             ELSE [err |-> "none", total |-> r.total,
                   options |-> SetAttrs(opts, r.total)]

\* History: apply(label) returned and total names the options it set.
Record(setter, label, total) ==
    [k \in DOMAIN setter |-> IF k \in DOMAIN total THEN label ELSE setter[k]]

InitSession ==
    /\ LoadIdle
    /\ DevIdle
    /\ LaunchIdle
    /\ \E g \in GoodDocs, defect \in Defects : doc = Damage(g, defect)
    /\ sess = "new"
    /\ options = InitialOptions
    /\ lastLabel = "none"
    /\ lastErr = "none"
    /\ lastTotal = <<>>
    /\ lastSetter = [k \in DOMAIN InitialOptions |-> "none"]

\* Session.__init__ after _load_configurations: the attributes get their
\* initial values and "default", when the document has it, is applied.
New ==
    /\ sess = "new"
    /\ IF doc["default"].kind # "absent"
       THEN LET r == SessionApply(InitialOptions, doc, "default")
            IN  /\ sess' = IF r.err = "none" THEN "ready" ELSE "failed"
                /\ options' = r.options
                /\ lastLabel' = "default"
                /\ lastErr' = r.err
                /\ lastTotal' = r.total
                /\ lastSetter' = IF r.err = "none"
                                 THEN Record(lastSetter, "default", r.total)
                                 ELSE lastSetter
       ELSE /\ sess' = "ready"
            /\ options' = InitialOptions
            /\ UNCHANGED <<lastLabel, lastErr, lastTotal, lastSetter>>
    /\ UNCHANGED <<doc, loadVars, devVars, launchVars>>

\* Session.apply(label)
Apply(label) ==
    /\ sess = "ready"
    /\ LET r == SessionApply(options, doc, label)
       IN  /\ options' = r.options
           /\ lastLabel' = label
           /\ lastErr' = r.err
           /\ lastTotal' = r.total
           /\ lastSetter' = IF r.err = "none"
                            THEN Record(lastSetter, label, r.total)
                            ELSE lastSetter
    /\ UNCHANGED <<doc, sess, loadVars, devVars, launchVars>>

NextSession ==
    \/ New
    \/ \E label \in NameSet : Apply(label)

SpecSession == InitSession /\ [][NextSession]_vars

\* The profiles _apply can reach from p through include lists.
RECURSIVE Reach(_, _)
Reach(d, p) ==
    {p} \cup
    (IF d[p].kind = "dict" /\ d[p].star = "list"
     THEN UNION {Reach(d, d[p].includes[i]) : i \in 1..Len(d[p].includes)}
     ELSE {})

\* The error the specification names for profile q, "none" for a valid one.
DefectOf(d, q) ==
    CASE d[q].kind = "absent"                     -> "UnknownProfile"
      [] d[q].kind = "notdict"                    -> "InvalidProfileShape"
      [] d[q].star = "notlist"                    -> "InvalidIncludeList"
      [] \E k \in DOMAIN d[q].own : k \notin (VALID_KEYS \ {"*"}) -> "UnknownOption"
      [] OTHER                                    -> "none"

ReachableDefects(d, p) == {DefectOf(d, q) : q \in Reach(d, p)} \ {"none"}

\* resolve(document, P) as the specification defines it: the resolved sets
\* of the includes, each computed on its own, merged in list order, then
\* P's own pairs laid over them.
RECURSIVE Resolve(_, _)
RECURSIVE MergeResolved(_, _, _)
Resolve(d, p) ==
    LET included == IF d[p].star = "list"
                    THEN MergeResolved(d, d[p].includes, Len(d[p].includes))
                    ELSE <<>>
    IN  (d[p].own) @@ included

\* merge(resolve(l[1]), ..., resolve(l[n])), a later one overriding.
MergeResolved(d, l, n) ==
    IF n = 0 THEN <<>>
    ELSE Resolve(d, l[n]) @@ MergeResolved(d, l, n - 1)

\* ---- C2 ----
\* C2: when every profile reachable from the applied profile P is valid, the
\* call returns and the option set it resolved is the merge, in list order,
\* of the sets resolved for P's includes with P's own pairs laid over it;
\* with no include list it is exactly P's own pairs.
C2_ResolveIsOrderedMerge ==
    (lastLabel # "none" /\ ReachableDefects(doc, lastLabel) = {}) =>
        /\ lastErr = "none"
        /\ lastTotal = Resolve(doc, lastLabel)
        /\ doc[lastLabel].star = "nostar" => lastTotal = doc[lastLabel].own

\* b includes default and a, the two collide on region, a and b on image.
C2_Witness ==
    /\ lastLabel = "b"
    /\ lastErr = "none"
    /\ doc["b"].star = "list"
    /\ doc["b"].includes = <<"default", "a">>
    /\ doc["a"].star = "list"
    /\ doc["a"].includes = <<"default">>
    /\ DOMAIN doc["default"].own = {"region", "image"}
    /\ DOMAIN doc["a"].own = {"region", "image"}
    /\ DOMAIN doc["b"].own = {"image"}
    /\ lastTotal = ("region" :> "from_a") @@ ("image" :> "from_b")

\* ---- C3 ----
\* C3: a call of apply(P) (the one __init__ makes included) with an absent or
\* invalid profile among those reachable from P raises the error of such a
\* profile and leaves every option as it was before the call.
C3_FailedApplyChangesNothing ==
    [][(lastLabel' # "none" /\ ReachableDefects(doc, lastLabel') # {}) =>
          /\ lastErr' \in ReachableDefects(doc, lastLabel')
          /\ options' = options
          /\ sess = "new" => sess' = "failed"]_vars

\* apply("b") failed on b's unknown key after b's includes had been resolved
\* to values the session does not hold.
C3_Witness ==
    /\ sess = "ready"
    /\ lastLabel = "b"
    /\ lastErr = "UnknownOption"
    /\ DefectOf(doc, "b") = "UnknownOption"
    /\ "region" \in DOMAIN lastTotal
    /\ lastTotal["region"] = "from_a"
    /\ options["region"] = "from_default"

\* ---- C10 ----
\* C10: in a created session every option holds the value given by the most
\* recently applied profile whose resolved set names it ("default" counting
\* as applied at creation), its initial value if there is none; the session
\* has no other attribute and the document never changes.
C10_LastApplierWins ==
    /\ [](sess = "ready" =>
            /\ DOMAIN options = DOMAIN InitialOptions
            /\ \A k \in DOMAIN InitialOptions :
                 options[k] = IF lastSetter[k] = "none"
                              THEN InitialOptions[k]
                              ELSE Resolve(doc, lastSetter[k])[k])
    /\ [][doc' = doc]_vars

\* region was last set by apply("a"), image still holds what "default" gave
\* at creation, and a later apply("b") named neither.
C10_Witness ==
    /\ sess = "ready"
    /\ lastLabel = "b"
    /\ lastErr = "none"
    /\ lastSetter["region"] = "a"
    /\ lastSetter["image"] = "default"
    /\ options["region"] = "from_a"
    /\ options["image"] = "from_default"
    /\ options["placement"] = "None"

(***************************************************************************)
(*               _DEVICE_LETTER, _make_block_device_map                    *)
(***************************************************************************)

\* _EC2_INSTANCE_VOLUME_COUNT
EC2_INSTANCE_VOLUME_COUNT ==
    ("x1.16xlarge" :> 1) @@ ("x1e.4xlarge" :> 1) @@ ("x1e.16xlarge" :> 1) @@
    ("x1.32xlarge" :> 2) @@ ("x1e.2xlarge" :> 1) @@ ("d2.8xlarge" :> 24) @@
    ("d2.2xlarge" :> 6) @@ ("d2.xlarge" :> 3) @@ ("x1e.32xlarge" :> 2) @@
    ("d2.4xlarge" :> 12) @@ ("x1e.8xlarge" :> 1) @@ ("x1e.xlarge" :> 1) @@
    ("f1.4xlarge" :> 1) @@ ("h1.8xlarge" :> 4) @@ ("h1.16xlarge" :> 8) @@
    ("h1.4xlarge" :> 2) @@ ("h1.2xlarge" :> 1)

\* Instance types the table does not list.
OtherTypes == {"m4.large", "t2.micro"}

\* chr(ord('a') + i)
Alphabet ==
    <<"a", "b", "c", "d", "e", "f", "g", "h", "i", "j", "k", "l", "m",
      "n", "o", "p", "q", "r", "s", "t", "u", "v", "w", "x", "y", "z">>
Chr(i) == Alphabet[i + 1]

\* for i in xrange(from, 26): _DEVICE_LETTER.append(chr(ord('a')+i))
RECURSIVE SingleLetters(_, _)
SingleLetters(i, acc) ==
    IF i >= 26 THEN acc ELSE SingleLetters(i + 1, Append(acc, Chr(i)))

\* What the inner loop appends for one i:
\* for j in xrange(0, 26): _DEVICE_LETTER.append(chr(ord('a')+i) + chr(ord('a')+j))
InnerLetters(i) == [k \in 1..26 |-> Chr(i) \o Chr(k - 1)]

\* for i in xrange(0, 26): the loop over j
RECURSIVE DoubleLetters(_, _)
DoubleLetters(i, acc) ==
    IF i >= 26 THEN acc ELSE DoubleLetters(i + 1, acc \o InnerLetters(i))

\* The list had the first loop started at 'a'.
DEVICE_LETTER_FROM_A == DoubleLetters(0, SingleLetters(0, <<>>))

\* _DEVICE_LETTER (a Python list: index i is element i + 1 here)
DEVICE_LETTER == DoubleLetters(0, SingleLetters(1, <<>>))

\* None as a root_volume_size
NoSize == -1

\* Upper bound on the root volume sizes of images and overrides.
MaxRootSize == 2

\* boto's BlockDeviceType(size=..., ephemeral_name=...)
BlockDeviceType(size, ephemeral_name) ==
    [size |-> size, ephemeral_name |-> ephemeral_name]

\* for i in xrange(n): block_device_mapping['/dev/sd' + _DEVICE_LETTER[i]] = ...
RECURSIVE EphemeralLoop(_, _, _)
EphemeralLoop(mapping, i, n) ==
    IF i >= n THEN mapping
    ELSE EphemeralLoop(
             (("/dev/sd" \o DEVICE_LETTER[i + 1]) :>
                 BlockDeviceType(NoSize, "ephemeral" \o ToString(i))) @@ mapping,
             i + 1, n)

\* A mapper whose table lookup gives no volume for a type it does not list.
MakeBlockDeviceMapLenient(rootSize, instance_type, root_volume_size) ==
    LET withRoot ==
            IF root_volume_size # NoSize /\ root_volume_size # 0
               /\ rootSize # root_volume_size
            THEN "/dev/xvda" :> BlockDeviceType(root_volume_size, "None")
            ELSE <<>>
        n == IF instance_type \in DOMAIN EC2_INSTANCE_VOLUME_COUNT
             THEN EC2_INSTANCE_VOLUME_COUNT[instance_type] ELSE 0
        mapping == EphemeralLoop(withRoot, 0, n)
    IN  IF Cardinality(DOMAIN mapping) > 0
        THEN [status |-> "mapping", mapping |-> mapping]
        ELSE [status |-> "None", mapping |-> <<>>]

\* _make_block_device_map(image, instance_type, root_volume_size), rootSize
\* being image.block_device_mapping['/dev/xvda'].size.  status is "mapping"
\* (a mapping was returned), "None" (None was) or "KeyError" (the table
\* lookup raised and nothing was returned).  A root_volume_size of None or 0
\* is false in the test of line 109.
MakeBlockDeviceMap(rootSize, instance_type, root_volume_size) ==
    LET withRoot ==
            IF root_volume_size # NoSize /\ root_volume_size # 0
               /\ rootSize # root_volume_size
            THEN "/dev/xvda" :> BlockDeviceType(root_volume_size, "None")
            ELSE <<>>
    IN  IF instance_type \notin DOMAIN EC2_INSTANCE_VOLUME_COUNT
        THEN [status |-> "KeyError", mapping |-> <<>>]
        ELSE LET mapping == EphemeralLoop(withRoot, 0,
                                EC2_INSTANCE_VOLUME_COUNT[instance_type])
             IN  IF Cardinality(DOMAIN mapping) > 0
                 THEN [status |-> "mapping", mapping |-> mapping]
                 ELSE [status |-> "None", mapping |-> <<>>]

InitDevice ==
    /\ LoadIdle
    /\ SessIdle
    /\ LaunchIdle
    /\ dmImage \in 1..MaxRootSize
    /\ dmType \in DOMAIN EC2_INSTANCE_VOLUME_COUNT \cup OtherTypes
    /\ dmOverride \in {NoSize} \cup 0..MaxRootSize
    /\ dmPc = "call"
    /\ dmResult = <<>>

CallMapper ==
    /\ dmPc = "call"
    /\ LET r == MakeBlockDeviceMap(dmImage, dmType, dmOverride)
       IN  /\ dmPc' = IF r.status = "KeyError" THEN "raised" ELSE "returned"
           /\ dmResult' = r
    /\ UNCHANGED <<dmImage, dmType, dmOverride, loadVars, sessVars, launchVars>>

NextDevice == CallMapper

SpecDevice == InitDevice /\ [][NextDevice]_vars

\* The i-th element (from 0) of the sequence b..z, aa..zz.
LetterAt(i) ==
    IF i < 25 THEN Alphabet[i + 2]
    ELSE Alphabet[((i - 25) \div 26) + 1] \o Alphabet[((i - 25) % 26) + 1]

MaxMatches == 2

\* Upper bound on the number of spot requests, and of instances, a creating
\* call returns.
MaxRequests == 2

\* The states the provider reports for a spot request.
SpotStates == {"open", "active", "cancelled", "failed"}

\* _lookup_ami_id: exactly one image must match.
LookupAmi(e) ==
    IF e.nImages # 1 THEN "AmbiguousImage" ELSE "none"

\* Lines 272-278: the id of the subnet named cfg.subnet, "None" when no
\* subnet is configured or none matches; more than one match raises.
ResolveSubnet(c, e) ==
    IF c.subnet # "None"
    THEN IF e.nSubnets > 0
         THEN IF e.nSubnets > 1
              THEN [err |-> "AmbiguousSubnet", subnet_id |-> "None"]
              ELSE [err |-> "none", subnet_id |-> "subnet-1"]
         ELSE [err |-> "none", subnet_id |-> "None"]
    ELSE [err |-> "none", subnet_id |-> "None"]

\* Two independent ifs in place of if / elif.
PlacementKwargsBoth(subnet_id, placement) ==
    (IF subnet_id # "None" THEN "subnet_id" :> subnet_id ELSE <<>>)
    @@ (IF placement # "None" THEN "placement" :> placement ELSE <<>>)

\* Lines 293-296: if ctx.subnet_id ... elif self.placement ...
PlacementKwargs(subnet_id, placement) ==
    IF subnet_id # "None" THEN "subnet_id" :> subnet_id
    ELSE IF placement # "None" THEN "placement" :> placement
    ELSE <<>>

\* Lines 288-308: create_kwargs.
CreateKwargs(c, subnet_id, bdm) ==
    ("instance_type" :> c.instance_type)
    @@ ("dry_run" :> (IF c.dry_run THEN "True" ELSE "False"))
    @@ PlacementKwargs(subnet_id, c.placement)
    @@ (IF bdm.status = "mapping" THEN "block_device_map" :> bdm.mapping ELSE <<>>)

\* A call issued to the provider.
Call(op, dry_run, arg) == [op |-> op, dry_run |-> dry_run, arg |-> arg]

InitLaunch ==
    /\ LoadIdle
    /\ SessIdle
    /\ DevIdle
    /\ cfg \in [subnet : {"None", "net-a"},
                placement : {"None", "us-east-1a"},
                instance_type : {"d2.xlarge", "m4.large"},
                root_volume_size : {NoSize, MaxRootSize},
                spot : BOOLEAN,
                dry_run : BOOLEAN,
                name : {"None", "web"},
                tags : {"None", "team=x"},
                load_balancers : {<<>>, <<"lb1", "lb2">>}]
    /\ env \in [nImages : 0..MaxMatches,
                nSubnets : 0..MaxMatches,
                rootSize : {1},
                priced : BOOLEAN]
    /\ cfg.subnet = "None" => env.nSubnets = 0
    /\ ~cfg.spot => env.priced
    /\ pc = "start"
    /\ err = "none"
    /\ kwargs = <<>>
    /\ nReq = 0
    /\ cur = 0
    /\ reqState = <<>>
    /\ instance_ids = <<>>
    /\ calls = <<>>
    /\ returned = <<>>

\* Lines 252-311: the lookups, the block device mapping and create_kwargs.
Plan ==
    /\ pc = "start"
    /\ LET sub == ResolveSubnet(cfg, env)
           bdm == MakeBlockDeviceMap(env.rootSize, cfg.instance_type,
                                     cfg.root_volume_size)
           e   == IF LookupAmi(env) # "none" THEN LookupAmi(env)
                  ELSE IF sub.err # "none" THEN sub.err
                  ELSE IF bdm.status = "KeyError" THEN "UnknownInstanceType"
                  ELSE "none"
       IN  IF e # "none"
           THEN /\ pc' = "raised"
                /\ err' = e
                /\ UNCHANGED kwargs
           ELSE /\ pc' = "create"
                /\ kwargs' = CreateKwargs(cfg, sub.subnet_id, bdm)
                /\ UNCHANGED err
    /\ UNCHANGED <<cfg, env, nReq, cur, reqState, instance_ids, calls, returned>>
    /\ UNCHANGED <<loadVars, sessVars, devVars>>

\* Lines 314-323: the price lookup, request_spot_instances and the ids of
\* the n requests the provider made.
CreateSpot ==
    /\ pc = "create"
    /\ cfg.spot
    /\ IF ~env.priced
       THEN /\ pc' = "raised"
            /\ err' = "UnknownPrice"
            /\ UNCHANGED <<nReq, cur, reqState, calls>>
       ELSE \E n \in 0..MaxRequests :
                /\ calls' = Append(calls, Call("request_spot_instances", cfg.dry_run, "image"))
                /\ nReq' = n
                /\ reqState' = [r \in 1..n |-> "unpolled"]
                /\ cur' = 1
                /\ pc' = IF n = 0 THEN "finalize" ELSE "poll"
                /\ UNCHANGED err
    /\ UNCHANGED <<cfg, env, kwargs, instance_ids, returned>>
    /\ UNCHANGED <<loadVars, sessVars, devVars>>

\* Lines 336-342: run_instances and the ids of the n instances it made.
CreateOnDemand ==
    /\ pc = "create"
    /\ ~cfg.spot
    /\ \E n \in 0..MaxRequests :
           /\ calls' = Append(calls, Call("run_instances", cfg.dry_run, "image"))
           /\ instance_ids' = [i \in 1..n |-> "i-" \o ToString(i)]
    /\ pc' = "finalize"
    /\ UNCHANGED <<cfg, env, err, kwargs, nReq, cur, reqState, returned>>
    /\ UNCHANGED <<loadVars, sessVars, devVars>>

\* A loop that goes on until the request is active.
KeepPollingUntilActive(state) == state # "active"

\* while state == 'open'
KeepPolling(state) == state = "open"

\* A for body without the test of the final state.
AppendAlways(ids, state, r) == Append(ids, "i-" \o ToString(r))

\* Lines 331-334: a request that is not active is skipped, the instance of
\* an active one is appended.
AppendIfActive(ids, state, r) ==
    IF state # "active" THEN ids ELSE Append(ids, "i-" \o ToString(r))

\* Lines 326-334, one turn of the while loop for request cur: the sleep, the
\* poll, which the provider answers with state, and, when the loop ends, the
\* rest of the for body.
Poll(state) ==
    /\ pc = "poll"
    /\ reqState' = [reqState EXCEPT ![cur] = state]
    /\ IF KeepPolling(state)
       THEN UNCHANGED <<pc, cur, instance_ids>>
       ELSE /\ instance_ids' = AppendIfActive(instance_ids, state, cur)
            /\ cur' = cur + 1
            /\ pc' = IF cur + 1 > nReq THEN "finalize" ELSE "poll"
    /\ UNCHANGED <<cfg, env, err, kwargs, nReq, calls, returned>>
    /\ UNCHANGED <<loadVars, sessVars, devVars>>

\* Lines 347-351: create_tags for the Name tag and for the configured tags.
TagCalls(c) ==
    (IF c.name # "None" THEN <<Call("create_tags", c.dry_run, "Name")>> ELSE <<>>)
    \o (IF c.tags # "None" THEN <<Call("create_tags", c.dry_run, "tags")>> ELSE <<>>)

\* A registration that does not look at dry_run.
RegisterCallsAlways(c) ==
    [i \in 1..Len(c.load_balancers) |->
        Call("register_instances", FALSE, c.load_balancers[i])]

\* Lines 353-355: register_instances for each load balancer.
RegisterCalls(c) ==
    IF ~c.dry_run
    THEN [i \in 1..Len(c.load_balancers) |->
             Call("register_instances", FALSE, c.load_balancers[i])]
    ELSE <<>>

\* Lines 344-364: with instance ids, the tagging, the registration and the
\* instances fetched for them; without, the empty list.
Finalize ==
    /\ pc = "finalize"
    /\ IF instance_ids # <<>>
       THEN calls' = calls \o TagCalls(cfg) \o RegisterCalls(cfg)
                     \o <<Call("get_all_instances", FALSE, "ids")>>
       ELSE UNCHANGED calls
    /\ returned' = instance_ids
    /\ pc' = "done"
    /\ UNCHANGED <<cfg, env, err, kwargs, nReq, cur, reqState, instance_ids>>
    /\ UNCHANGED <<loadVars, sessVars, devVars>>

NextLaunch ==
    \/ Plan
    \/ CreateSpot
    \/ CreateOnDemand
    \/ \E state \in SpotStates : Poll(state)
    \/ Finalize

SpecLaunch == InitLaunch /\ [][NextLaunch]_vars

\* The provider reports a state other than 'open' for the polled request.
PollFinal == \E state \in SpotStates \ {"open"} : Poll(state)

\* launch takes its next step, and the provider eventually reports a state
\* other than 'open' for every request polled.
FairLaunch ==
    /\ SpecLaunch
    /\ WF_vars(Plan)
    /\ WF_vars(CreateSpot)
    /\ WF_vars(CreateOnDemand)
    /\ WF_vars(PollFinal)
    /\ WF_vars(Finalize)

\* The calls issued so far whose operation is one of ops.
CallsOf(ops) == {i \in 1..Len(calls) : calls[i].op \in ops}

\* The instance ids of the requests, in request order, whose state in st is
\* 'active'.
RECURSIVE ActiveIds(_, _)
ActiveIds(st, n) ==
    IF n = 0 THEN <<>>
    ELSE IF st[n] = "active"
         THEN Append(ActiveIds(st, n - 1), "i-" \o ToString(n))
         ELSE ActiveIds(st, n - 1)

\* ---- C4 ----
\* C4: a spot launch raises no error once its requests exist, whatever
\* states are polled; the instance ids it produces are, in request order,
\* those of the requests whose first state other than 'open' is 'active';
\* every request is polled to such a state before launch returns, and when
\* none is active launch returns the empty list.
C4_SpotIdsAreTheActiveRequests ==
    (pc # "idle" /\ cfg.spot) =>
        /\ pc = "raised" =>
             /\ err \in {"AmbiguousImage", "AmbiguousSubnet",
                         "UnknownInstanceType", "UnknownPrice"}
             /\ CallsOf({"request_spot_instances"}) = {}
        /\ pc = "poll" => instance_ids = ActiveIds(reqState, cur - 1)
        /\ pc \in {"finalize", "done"} =>
             /\ \A r \in 1..nReq : reqState[r] \in SpotStates \ {"open"}
             /\ instance_ids = ActiveIds(reqState, nReq)
        /\ pc = "done" =>
             /\ err = "none"
             /\ returned = ActiveIds(reqState, nReq)
             /\ (\A r \in 1..nReq : reqState[r] # "active") => returned = <<>>

\* The first of two requests ended 'cancelled', the second 'active'.
C4_Witness ==
    /\ pc = "done"
    /\ cfg.spot
    /\ reqState = <<"cancelled", "active">>
    /\ returned = <<"i-2">>

\* ---- C5 ----
\* C5 as claimed: a dry-run launch that produced an instance id issues no
\* tagging call and no load-balancer registration, and returns the
\* instances created.
C5_DryRunIssuesNoTagging ==
    (pc = "done" /\ cfg.dry_run /\ instance_ids # <<>>) =>
        /\ CallsOf({"create_tags", "register_instances"}) = {}
        /\ returned = instance_ids

\* C5 as amended: a dry-run launch that produced an instance id issues no
\* load-balancer registration, and the tagging calls it issues (one for the
\* Name tag when a name is configured, one for the configured tags) all
\* carry the dry-run flag; it returns the instances created.
C5_DryRunTagsOnlyAsDryRun ==
    (pc = "done" /\ cfg.dry_run /\ instance_ids # <<>>) =>
        /\ CallsOf({"register_instances"}) = {}
        /\ \A i \in CallsOf({"create_tags"}) : calls[i].dry_run
        /\ Cardinality(CallsOf({"create_tags"})) =
               (IF cfg.name # "None" THEN 1 ELSE 0)
               + (IF cfg.tags # "None" THEN 1 ELSE 0)
        /\ returned = instance_ids

\* A dry-run launch with a name, tags and load balancers configured that
\* produced instances.
C5_Witness ==
    /\ pc = "done"
    /\ cfg.dry_run
    /\ cfg.name # "None"
    /\ cfg.tags # "None"
    /\ cfg.load_balancers # <<>>
    /\ Len(returned) = 2
    /\ \E i \in CallsOf({"create_tags"}) : calls[i].arg = "Name" /\ calls[i].dry_run

\* ---- C7 ----
\* C7: for an instance type the volume-count table does not list the mapper
\* raises and returns no mapping, a root-size override that differs from the
\* image's root size included; launch then raises (UnknownInstanceType when
\* the image and subnet lookups passed), builds no create_kwargs and issues
\* no instance-creation or spot request.
C7_UnknownTypeStopsLaunch ==
    (pc # "idle" /\ cfg.instance_type \notin DOMAIN EC2_INSTANCE_VOLUME_COUNT) =>
        LET bdm == MakeBlockDeviceMap(env.rootSize, cfg.instance_type,
                                      cfg.root_volume_size)
        IN  /\ bdm.status = "KeyError"
            /\ bdm.mapping = <<>>
            /\ pc \in {"start", "raised"}
            /\ kwargs = <<>>
            /\ CallsOf({"run_instances", "request_spot_instances"}) = {}
            /\ (pc = "raised" /\ env.nImages = 1
                /\ ~(cfg.subnet # "None" /\ env.nSubnets > 1))
                   => err = "UnknownInstanceType"

\* launch raised on m4.large although a differing root size was supplied.
C7_Witness ==
    /\ pc = "raised"
    /\ err = "UnknownInstanceType"
    /\ cfg.instance_type = "m4.large"
    /\ cfg.root_volume_size # NoSize
    /\ cfg.root_volume_size # env.rootSize

\* ---- C8 ----
\* C8: create_kwargs never holds both a subnet id and a placement; with
\* exactly one subnet matching the configured name it holds that subnet's
\* id and no placement; with no subnet configured or none matching it holds
\* the configured placement, if any, and no subnet id; with more than one
\* match launch raises (AmbiguousSubnet when the image lookup passed) before
\* any creation request.
C8_SubnetOrPlacement ==
    /\ ~({"subnet_id", "placement"} \subseteq DOMAIN kwargs)
    /\ pc \in {"create", "poll", "finalize", "done"} =>
         /\ (cfg.subnet # "None" /\ env.nSubnets = 1) =>
              /\ "subnet_id" \in DOMAIN kwargs
              /\ kwargs["subnet_id"] = "subnet-1"
              /\ "placement" \notin DOMAIN kwargs
         /\ (cfg.subnet = "None" \/ env.nSubnets = 0) =>
              /\ "subnet_id" \notin DOMAIN kwargs
              /\ cfg.placement = "None" => "placement" \notin DOMAIN kwargs
              /\ cfg.placement # "None" =>
                   /\ "placement" \in DOMAIN kwargs
                   /\ kwargs["placement"] = cfg.placement
    /\ (pc # "idle" /\ cfg.subnet # "None" /\ env.nSubnets > 1) =>
         /\ pc \in {"start", "raised"}
         /\ CallsOf({"run_instances", "request_spot_instances"}) = {}
         /\ (pc = "raised" /\ env.nImages = 1) => err = "AmbiguousSubnet"

\* One subnet matched while a placement was configured as well, and the
\* creation request has been issued.
C8_Witness ==
    /\ pc = "done"
    /\ cfg.subnet # "None"
    /\ cfg.placement # "None"
    /\ env.nSubnets = 1
    /\ "subnet_id" \in DOMAIN kwargs
    /\ CallsOf({"run_instances"}) # {}

\* ---- C9 ----
\* C9: while a request is polled its last polled state is 'open' (or it has
\* not been polled yet), and another poll is always possible: nothing but
\* the polled state ends the loop; a request that has reported a state other
\* than 'open' is never polled again; launch returns only when every request
\* has reported such a state, so it never returns while one stays 'open';
\* and when the provider eventually reports such a state for every request
\* polled, launch eventually returns or raises.
C9_PollingEndsWithTheProvider ==
    /\ [](pc = "poll" =>
            /\ cur \in 1..nReq
            /\ reqState[cur] \in {"unpolled", "open"}
            /\ ENABLED (Poll("open") /\ pc' = "poll" /\ cur' = cur))
    /\ [][\A r \in 1..Len(reqState) :
            reqState[r] \notin {"unpolled", "open"} => reqState'[r] = reqState[r]]_vars
    /\ [](pc = "done" => \A r \in 1..nReq : reqState[r] \in SpotStates \ {"open"})
    /\ <>(pc \in {"done", "raised"})

\* The first request has failed and the second, polled once, is still open.
C9_Witness ==
    /\ pc = "poll"
    /\ nReq = 2
    /\ cur = 2
    /\ reqState = <<"failed", "open">>

=============================================================================
